---- MODULE Spec2Model ----
(***************************************************************************)
(* Hash2 protocol driver (BaseCrypto2GetHashSize, BaseCrypto2Hash,         *)
(* BaseCrypto2HashInit, BaseCrypto2HashUpdate, BaseCrypto2HashFinal) over  *)
(* the EVP MD wrapper (EvpMdInit, EvpMdUpdate, EvpMdFinal, EvpMdHashAll),  *)
(* over the OpenSSL digest engine (EVP_MD_CTX_new, EVP_get_digestbyname,   *)
(* EVP_DigestInit_ex, EVP_DigestUpdate, EVP_DigestFinal_ex,                *)
(* EVP_MD_CTX_free).                                                       *)
(*                                                                         *)
(* Every C function is an operator from a machine state record `s` (and    *)
(* the function's arguments, and the engine outcomes `e` of this call) to  *)
(* a record [s |-> state after, ret |-> return value].  An action is one   *)
(* whole service call.                                                     *)
(*                                                                         *)
(* Spec is the driver called through its protocol instances.  SpecEvp is   *)
(* the wrapper called directly by a client of the library.  SpecRecover is *)
(* Spec with a caller that brings its sessions to an end.                  *)
(***************************************************************************)
EXTENDS Integers, Sequences, FiniteSets, TLC

VARIABLES
  HashContext,   \* Instance->HashContext of each protocol instance (NULL or a context)
  Updated,       \* Instance->Updated of each protocol instance
  heap,          \* the engine's allocated, not yet freed EVP_MD_CTX objects
  nextCtx,       \* number of the next EVP_MD_CTX the allocator hands out
  doubleFree,    \* history: EVP_MD_CTX_free was called on a context already freed
  useAfterFree,  \* history: a freed context was passed to init, update or final
  last           \* the last service call: arguments, engine outcomes, state before, result

vars == <<HashContext, Updated, heap, nextCtx, doubleFree, useAfterFree, last>>

----------------------------------------------------------------------------
(* Bounds of the model *)

\* number of EVP_MD_CTX objects the allocator can hand out in one behaviour
MaxCtx == 2
\* longest message passed to one Hash or HashUpdate call
MaxMsgLen == 1
\* most bytes one context absorbs
MaxDataLen == 1

\* the byte values of messages (the code reads their number, never their value)
Byte == {0}

NULL == "NULL"

\* the protocol instances of the driver (each owns one HASH2_INSTANCE_DATA)
Instances == {"A", "B"}

----------------------------------------------------------------------------
(* EFI_STATUS values returned by the driver *)

EFI_SUCCESS == "EFI_SUCCESS"
EFI_INVALID_PARAMETER == "EFI_INVALID_PARAMETER"
EFI_UNSUPPORTED == "EFI_UNSUPPORTED"
EFI_OUT_OF_RESOURCES == "EFI_OUT_OF_RESOURCES"
EFI_ALREADY_STARTED == "EFI_ALREADY_STARTED"
EFI_NOT_READY == "EFI_NOT_READY"

EFI_ERROR(Status) == Status # EFI_SUCCESS

----------------------------------------------------------------------------
(* Algorithm registry *)

gEfiHashAlgorithmMD5Guid == "gEfiHashAlgorithmMD5Guid"
gEfiHashAlgorithmSha1Guid == "gEfiHashAlgorithmSha1Guid"
gEfiHashAlgorithmSha256Guid == "gEfiHashAlgorithmSha256Guid"
gEfiHashAlgorithmSha384Guid == "gEfiHashAlgorithmSha384Guid"
gEfiHashAlgorithmSha512Guid == "gEfiHashAlgorithmSha512Guid"

\* a GUID that is not in mHashInfo
UnregisteredGuid == "UnregisteredGuid"

\* sizeof the digest types EFI_MD5_HASH2 ... EFI_SHA512_HASH2 of the Hash2 protocol
sizeof_EFI_MD5_HASH2 == 16
sizeof_EFI_SHA1_HASH2 == 20
sizeof_EFI_SHA256_HASH2 == 32
sizeof_EFI_SHA384_HASH2 == 48
sizeof_EFI_SHA512_HASH2 == 64

\* mHashInfo with the sizes of SHA-384 and SHA-512 exchanged
mHashInfo_SizesExchanged ==
  << [Guid |-> gEfiHashAlgorithmMD5Guid,    HashSize |-> sizeof_EFI_MD5_HASH2, DigestName |-> "MD5"],
     [Guid |-> gEfiHashAlgorithmSha1Guid,   HashSize |-> sizeof_EFI_SHA1_HASH2, DigestName |-> "SHA1"],
     [Guid |-> gEfiHashAlgorithmSha256Guid, HashSize |-> sizeof_EFI_SHA256_HASH2, DigestName |-> "SHA256"],
     [Guid |-> gEfiHashAlgorithmSha384Guid, HashSize |-> sizeof_EFI_SHA512_HASH2, DigestName |-> "SHA384"],
     [Guid |-> gEfiHashAlgorithmSha512Guid, HashSize |-> sizeof_EFI_SHA384_HASH2, DigestName |-> "SHA512"] >>

mHashInfo ==
  << [Guid |-> gEfiHashAlgorithmMD5Guid,    HashSize |-> sizeof_EFI_MD5_HASH2, DigestName |-> "MD5"],
     [Guid |-> gEfiHashAlgorithmSha1Guid,   HashSize |-> sizeof_EFI_SHA1_HASH2, DigestName |-> "SHA1"],
     [Guid |-> gEfiHashAlgorithmSha256Guid, HashSize |-> sizeof_EFI_SHA256_HASH2, DigestName |-> "SHA256"],
     [Guid |-> gEfiHashAlgorithmSha384Guid, HashSize |-> sizeof_EFI_SHA384_HASH2, DigestName |-> "SHA384"],
     [Guid |-> gEfiHashAlgorithmSha512Guid, HashSize |-> sizeof_EFI_SHA512_HASH2, DigestName |-> "SHA512"] >>

CompareGuid(Guid1, Guid2) == Guid1 = Guid2

\* the NULL pointer to an EFI_HASH_INFO
NullHashInfo == [Guid |-> NULL, HashSize |-> 0, DigestName |-> NULL]

\* first entry of mHashInfo whose Guid compares equal, else NULL
GetHashInfo(HashAlgorithm) ==
  LET hits == {Index \in 1..Len(mHashInfo) : CompareGuid(HashAlgorithm, mHashInfo[Index].Guid)}
  IN  IF hits = {} THEN NullHashInfo
      ELSE mHashInfo[CHOOSE Index \in hits : \A j \in hits : Index <= j]

----------------------------------------------------------------------------
(* The digest engine.  `e` holds the outcome of each engine step of the    *)
(* current call: e.new (allocation succeeds), e.lookup (the engine knows   *)
(* the digest name), e.init, e.update, e.final (the step succeeds).        *)

Outcomes == [new : BOOLEAN, lookup : BOOLEAN, init : BOOLEAN, update : BOOLEAN, final : BOOLEAN]

AllSucceed == [new |-> TRUE, lookup |-> TRUE, init |-> TRUE, update |-> TRUE, final |-> TRUE]

Ret(s, ret) == [s |-> s, ret |-> ret]

\* the engine step fn was taken on context ctx and succeeded (ok) or failed
Called(s, fn, ctx, ok) == [s EXCEPT !.calls = Append(@, [fn |-> fn, ctx |-> ctx, ok |-> ok])]

Live(s) == DOMAIN s.heap

EVP_MD_CTX_new(s, e) ==
  IF e.new
    THEN LET ctx == "ctx" \o ToString(s.nextCtx)
             s1  == [s EXCEPT !.heap = (ctx :> [name |-> NULL, data |-> <<>>]) @@ @,
                              !.nextCtx = @ + 1]
         IN  Ret(Called(s1, "EVP_MD_CTX_new", ctx, TRUE), ctx)
    ELSE Ret(Called(s, "EVP_MD_CTX_new", NULL, FALSE), NULL)

EVP_MD_CTX_free(s, ctx) ==
  LET s1 == IF ctx \in Live(s)
              THEN [s EXCEPT !.heap = [c \in Live(s) \ {ctx} |-> s.heap[c]]]
              ELSE [s EXCEPT !.doubleFree = TRUE]
  IN  Ret(Called(s1, "EVP_MD_CTX_free", ctx, TRUE), NULL)

EVP_get_digestbyname(s, name, e) ==
  Ret(Called(s, "EVP_get_digestbyname", NULL, e.lookup), IF e.lookup THEN name ELSE NULL)

EVP_DigestInit_ex(s, ctx, Digest, e) ==
  LET s1 == IF ctx \notin Live(s) THEN [s EXCEPT !.useAfterFree = TRUE]
            ELSE IF e.init THEN [s EXCEPT !.heap[ctx] = [name |-> Digest, data |-> <<>>]]
            ELSE s
  IN  Ret(Called(s1, "EVP_DigestInit_ex", ctx, e.init), IF e.init THEN 1 ELSE 0)

\* Data is NULL or points to the caller's message s.msg; DataSize bytes are read
EVP_DigestUpdate(s, ctx, Data, DataSize, e) ==
  LET s1 == IF ctx \notin Live(s) THEN [s EXCEPT !.useAfterFree = TRUE]
            ELSE IF e.update /\ Data # NULL
              THEN [s EXCEPT !.heap[ctx].data = @ \o SubSeq(s.msg, 1, DataSize)]
            ELSE s
  IN  Ret(Called(s1, "EVP_DigestUpdate", ctx, e.update), IF e.update THEN 1 ELSE 0)

\* content of an output buffer nothing was written to
Unwritten == [name |-> NULL, data |-> <<>>]

\* the digest value of a context: determined by the algorithm and the bytes absorbed
DigestOf(c) == [name |-> c.name, data |-> c.data]

EVP_DigestFinal_ex(s, ctx, e) ==
  LET s1 == IF ctx \notin Live(s) THEN [s EXCEPT !.useAfterFree = TRUE]
            ELSE IF e.final THEN [s EXCEPT !.out = DigestOf(s.heap[ctx])]
            ELSE s
  IN  Ret(Called(s1, "EVP_DigestFinal_ex", ctx, e.final), IF e.final THEN 1 ELSE 0)

----------------------------------------------------------------------------
(* EVP MD wrapper (CryptEvpMd.c) *)

EvpMdInit(s, DigestName, e) ==
  IF DigestName = NULL THEN Ret(s, NULL)
  ELSE
    LET new == EVP_MD_CTX_new(s, e) IN
    IF new.ret = NULL THEN Ret(new.s, NULL)
    ELSE
      LET Digest == EVP_get_digestbyname(new.s, DigestName, e) IN
      IF Digest.ret = NULL THEN Ret(Digest.s, NULL)
      ELSE
        LET init == EVP_DigestInit_ex(Digest.s, new.ret, Digest.ret, e) IN
        IF init.ret # 1
          THEN Ret(EVP_MD_CTX_free(init.s, new.ret).s, NULL)
          ELSE Ret(init.s, new.ret)

\* EvpMdUpdate rejecting absent data whatever its size
EvpMdUpdate_RejectsAbsentData(s, EvpMdContext, Data, DataSize, e) ==
  IF EvpMdContext = NULL THEN Ret(s, FALSE)
  ELSE IF Data = NULL THEN Ret(s, FALSE)
  ELSE
    LET upd == EVP_DigestUpdate(s, EvpMdContext, Data, DataSize, e) IN
    IF upd.ret # 1 THEN Ret(upd.s, FALSE) ELSE Ret(upd.s, TRUE)

EvpMdUpdate(s, EvpMdContext, Data, DataSize, e) ==
  IF EvpMdContext = NULL THEN Ret(s, FALSE)
  ELSE IF Data = NULL /\ DataSize # 0 THEN Ret(s, FALSE)
  ELSE
    LET upd == EVP_DigestUpdate(s, EvpMdContext, Data, DataSize, e) IN
    IF upd.ret # 1 THEN Ret(upd.s, FALSE) ELSE Ret(upd.s, TRUE)

\* EvpMdFinal freeing the context in the failure branch and again at the end
EvpMdFinal_FreeTwice(s, EvpMdContext, DigestValue, e) ==
  IF EvpMdContext = NULL THEN Ret(s, FALSE)
  ELSE IF DigestValue = NULL
    THEN Ret(EVP_MD_CTX_free(s, EvpMdContext).s, FALSE)
  ELSE
    LET fin == EVP_DigestFinal_ex(s, EvpMdContext, e)
        s1  == IF fin.ret # 1 THEN EVP_MD_CTX_free(fin.s, EvpMdContext).s ELSE fin.s
        ReturnValue == IF fin.ret # 1 THEN FALSE ELSE TRUE
    IN  Ret(EVP_MD_CTX_free(s1, EvpMdContext).s, ReturnValue)

\* EvpMdFinal returning on an absent output buffer without freeing the context
EvpMdFinal_NoFreeOnAbort(s, EvpMdContext, DigestValue, e) ==
  IF EvpMdContext = NULL THEN Ret(s, FALSE)
  ELSE IF DigestValue = NULL THEN Ret(s, FALSE)
  ELSE
    LET fin == EVP_DigestFinal_ex(s, EvpMdContext, e)
        ReturnValue == IF fin.ret # 1 THEN FALSE ELSE TRUE
    IN  Ret(EVP_MD_CTX_free(fin.s, EvpMdContext).s, ReturnValue)

\* DigestValue is NULL or a pointer to the caller's buffer; the digest written
\* to the buffer is s.out
EvpMdFinal(s, EvpMdContext, DigestValue, e) ==
  IF EvpMdContext = NULL THEN Ret(s, FALSE)
  ELSE IF DigestValue = NULL
    THEN Ret(EVP_MD_CTX_free(s, EvpMdContext).s, FALSE)
  ELSE
    LET fin == EVP_DigestFinal_ex(s, EvpMdContext, e)
        ReturnValue == IF fin.ret # 1 THEN FALSE ELSE TRUE
    IN  Ret(EVP_MD_CTX_free(fin.s, EvpMdContext).s, ReturnValue)

\* EvpMdHashAll returning after a failed EvpMdUpdate without calling EvpMdFinal
EvpMdHashAll_NoCleanup(s, DigestName, Data, DataSize, HashValue, e) ==
  LET init == EvpMdInit(s, DigestName, e) IN
  IF init.ret = NULL THEN Ret(init.s, FALSE)
  ELSE
    LET upd == EvpMdUpdate(init.s, init.ret, Data, DataSize, e) IN
    IF upd.ret = FALSE
      THEN Ret(upd.s, FALSE)
      ELSE EvpMdFinal(upd.s, init.ret, HashValue, e)

EvpMdHashAll(s, DigestName, Data, DataSize, HashValue, e) ==
  LET init == EvpMdInit(s, DigestName, e) IN
  IF init.ret = NULL THEN Ret(init.s, FALSE)
  ELSE
    LET upd == EvpMdUpdate(init.s, init.ret, Data, DataSize, e) IN
    IF upd.ret = FALSE
      THEN Ret(EvpMdFinal(upd.s, init.ret, NULL, e).s, FALSE)
      ELSE EvpMdFinal(upd.s, init.ret, HashValue, e)

----------------------------------------------------------------------------
(* Hash2 protocol driver *)

\* This is NULL or an instance; HashSize is NULL or a pointer whose target is s.size
BaseCrypto2GetHashSize(s, This, HashAlgorithm, HashSize) ==
  IF This = NULL \/ HashSize = NULL THEN Ret(s, EFI_INVALID_PARAMETER)
  ELSE IF HashAlgorithm = NULL THEN Ret(s, EFI_UNSUPPORTED)
  ELSE
    LET HashInfo == GetHashInfo(HashAlgorithm) IN
    IF HashInfo = NullHashInfo THEN Ret(s, EFI_UNSUPPORTED)
    ELSE Ret([s EXCEPT !.size = HashInfo.HashSize], EFI_SUCCESS)

\* BaseCrypto2HashInit without the consistency check on Instance->HashContext
BaseCrypto2HashInit_NoConsistencyCheck(s, This, HashAlgorithm, e) ==
  IF This = NULL THEN Ret(s, EFI_INVALID_PARAMETER)
  ELSE IF HashAlgorithm = NULL THEN Ret(s, EFI_UNSUPPORTED)
  ELSE
    LET HashInfo == GetHashInfo(HashAlgorithm) IN
    IF HashInfo = NullHashInfo THEN Ret(s, EFI_UNSUPPORTED)
    ELSE
      LET HashCtx == EvpMdInit(s, HashInfo.DigestName, e) IN
      IF HashCtx.ret = NULL THEN Ret(HashCtx.s, EFI_OUT_OF_RESOURCES)
      ELSE Ret([HashCtx.s EXCEPT !.HashContext[This] = HashCtx.ret,
                                 !.Updated[This] = FALSE],
               EFI_SUCCESS)

\* BaseCrypto2HashInit without the check of EvpMdInit's result
BaseCrypto2HashInit_NoNullCheck(s, This, HashAlgorithm, e) ==
  IF This = NULL THEN Ret(s, EFI_INVALID_PARAMETER)
  ELSE IF HashAlgorithm = NULL THEN Ret(s, EFI_UNSUPPORTED)
  ELSE
    LET HashInfo == GetHashInfo(HashAlgorithm) IN
    IF HashInfo = NullHashInfo THEN Ret(s, EFI_UNSUPPORTED)
    ELSE IF s.HashContext[This] # NULL THEN Ret(s, EFI_ALREADY_STARTED)
    ELSE
      LET HashCtx == EvpMdInit(s, HashInfo.DigestName, e) IN
      Ret([HashCtx.s EXCEPT !.HashContext[This] = HashCtx.ret,
                            !.Updated[This] = FALSE],
          EFI_SUCCESS)

\* BaseCrypto2HashInit making the consistency check before the lookup of the algorithm
BaseCrypto2HashInit_CheckSessionFirst(s, This, HashAlgorithm, e) ==
  IF This = NULL THEN Ret(s, EFI_INVALID_PARAMETER)
  ELSE IF s.HashContext[This] # NULL THEN Ret(s, EFI_ALREADY_STARTED)
  ELSE IF HashAlgorithm = NULL THEN Ret(s, EFI_UNSUPPORTED)
  ELSE
    LET HashInfo == GetHashInfo(HashAlgorithm) IN
    IF HashInfo = NullHashInfo THEN Ret(s, EFI_UNSUPPORTED)
    ELSE
      LET HashCtx == EvpMdInit(s, HashInfo.DigestName, e) IN
      IF HashCtx.ret = NULL THEN Ret(HashCtx.s, EFI_OUT_OF_RESOURCES)
      ELSE Ret([HashCtx.s EXCEPT !.HashContext[This] = HashCtx.ret,
                                 !.Updated[This] = FALSE],
               EFI_SUCCESS)

\* BaseCrypto2HashInit with one session for the driver: its consistency check
\* looks at the contexts of all instances
BaseCrypto2HashInit_DriverWideSession(s, This, HashAlgorithm, e) ==
  IF This = NULL THEN Ret(s, EFI_INVALID_PARAMETER)
  ELSE IF HashAlgorithm = NULL THEN Ret(s, EFI_UNSUPPORTED)
  ELSE
    LET HashInfo == GetHashInfo(HashAlgorithm) IN
    IF HashInfo = NullHashInfo THEN Ret(s, EFI_UNSUPPORTED)
    ELSE IF \E i \in Instances : s.HashContext[i] # NULL THEN Ret(s, EFI_ALREADY_STARTED)
    ELSE
      LET HashCtx == EvpMdInit(s, HashInfo.DigestName, e) IN
      IF HashCtx.ret = NULL THEN Ret(HashCtx.s, EFI_OUT_OF_RESOURCES)
      ELSE Ret([HashCtx.s EXCEPT !.HashContext[This] = HashCtx.ret,
                                 !.Updated[This] = FALSE],
               EFI_SUCCESS)

BaseCrypto2HashInit(s, This, HashAlgorithm, e) ==
  IF This = NULL THEN Ret(s, EFI_INVALID_PARAMETER)
  ELSE IF HashAlgorithm = NULL THEN Ret(s, EFI_UNSUPPORTED)
  ELSE
    LET HashInfo == GetHashInfo(HashAlgorithm) IN
    IF HashInfo = NullHashInfo THEN Ret(s, EFI_UNSUPPORTED)
    ELSE IF s.HashContext[This] # NULL THEN Ret(s, EFI_ALREADY_STARTED)
    ELSE
      LET HashCtx == EvpMdInit(s, HashInfo.DigestName, e) IN
      IF HashCtx.ret = NULL THEN Ret(HashCtx.s, EFI_OUT_OF_RESOURCES)
      ELSE Ret([HashCtx.s EXCEPT !.HashContext[This] = HashCtx.ret,
                                 !.Updated[This] = FALSE],
               EFI_SUCCESS)

\* BaseCrypto2HashUpdate setting Instance->Updated before it looks at the result
BaseCrypto2HashUpdate_UpdatedOnFailure(s, This, Message, MessageSize, e) ==
  IF This = NULL THEN Ret(s, EFI_INVALID_PARAMETER)
  ELSE IF s.HashContext[This] = NULL THEN Ret(s, EFI_NOT_READY)
  ELSE
    LET HashCtx == s.HashContext[This]
        upd == EvpMdUpdate(s, HashCtx, Message, MessageSize, e)
        s1  == [upd.s EXCEPT !.Updated[This] = TRUE]
    IN  IF ~upd.ret THEN Ret(s1, EFI_OUT_OF_RESOURCES)
        ELSE Ret(s1, EFI_SUCCESS)

BaseCrypto2HashUpdate(s, This, Message, MessageSize, e) ==
  IF This = NULL THEN Ret(s, EFI_INVALID_PARAMETER)
  ELSE IF s.HashContext[This] = NULL THEN Ret(s, EFI_NOT_READY)
  ELSE
    LET HashCtx == s.HashContext[This]
        upd == EvpMdUpdate(s, HashCtx, Message, MessageSize, e)
    IN  IF ~upd.ret THEN Ret(upd.s, EFI_OUT_OF_RESOURCES)
        ELSE Ret([upd.s EXCEPT !.Updated[This] = TRUE], EFI_SUCCESS)

\* BaseCrypto2HashFinal without the cleanup of the instance
BaseCrypto2HashFinal_NoCleanup(s, This, Hash, e) ==
  IF This = NULL \/ Hash = NULL THEN Ret(s, EFI_INVALID_PARAMETER)
  ELSE IF s.HashContext[This] = NULL \/ ~s.Updated[This] THEN Ret(s, EFI_NOT_READY)
  ELSE
    LET fin == EvpMdFinal(s, s.HashContext[This], Hash, e)
    IN  IF ~fin.ret THEN Ret(fin.s, EFI_OUT_OF_RESOURCES)
        ELSE Ret(fin.s, EFI_SUCCESS)

\* BaseCrypto2HashFinal returning on failure before the cleanup of the instance
BaseCrypto2HashFinal_CleanupOnSuccessOnly(s, This, Hash, e) ==
  IF This = NULL \/ Hash = NULL THEN Ret(s, EFI_INVALID_PARAMETER)
  ELSE IF s.HashContext[This] = NULL \/ ~s.Updated[This] THEN Ret(s, EFI_NOT_READY)
  ELSE
    LET fin == EvpMdFinal(s, s.HashContext[This], Hash, e)
        s1  == [fin.s EXCEPT !.HashContext[This] = NULL, !.Updated[This] = FALSE]
    IN  IF ~fin.ret THEN Ret(fin.s, EFI_OUT_OF_RESOURCES)
        ELSE Ret(s1, EFI_SUCCESS)

\* BaseCrypto2HashFinal without the check of Instance->Updated
BaseCrypto2HashFinal_NoUpdatedCheck(s, This, Hash, e) ==
  IF This = NULL \/ Hash = NULL THEN Ret(s, EFI_INVALID_PARAMETER)
  ELSE IF s.HashContext[This] = NULL THEN Ret(s, EFI_NOT_READY)
  ELSE
    LET fin == EvpMdFinal(s, s.HashContext[This], Hash, e)
        s1  == [fin.s EXCEPT !.HashContext[This] = NULL, !.Updated[This] = FALSE]
    IN  IF ~fin.ret THEN Ret(s1, EFI_OUT_OF_RESOURCES)
        ELSE Ret(s1, EFI_SUCCESS)

\* BaseCrypto2HashFinal without the check of Hash, passing it on to EvpMdFinal
BaseCrypto2HashFinal_NoHashCheck(s, This, Hash, e) ==
  IF This = NULL THEN Ret(s, EFI_INVALID_PARAMETER)
  ELSE IF s.HashContext[This] = NULL \/ ~s.Updated[This] THEN Ret(s, EFI_NOT_READY)
  ELSE
    LET fin == EvpMdFinal(s, s.HashContext[This], Hash, e)
        s1  == [fin.s EXCEPT !.HashContext[This] = NULL, !.Updated[This] = FALSE]
    IN  IF ~fin.ret THEN Ret(s1, EFI_OUT_OF_RESOURCES)
        ELSE Ret(s1, EFI_SUCCESS)

BaseCrypto2HashFinal(s, This, Hash, e) ==
  IF This = NULL \/ Hash = NULL THEN Ret(s, EFI_INVALID_PARAMETER)
  ELSE IF s.HashContext[This] = NULL \/ ~s.Updated[This] THEN Ret(s, EFI_NOT_READY)
  ELSE
    LET fin == EvpMdFinal(s, s.HashContext[This], Hash, e)
        s1  == [fin.s EXCEPT !.HashContext[This] = NULL, !.Updated[This] = FALSE]
    IN  IF ~fin.ret THEN Ret(s1, EFI_OUT_OF_RESOURCES)
        ELSE Ret(s1, EFI_SUCCESS)

\* BaseCrypto2Hash computing the digest with the one-shot EvpMdHashAll
BaseCrypto2Hash_ViaHashAll(s, This, HashAlgorithm, Message, MessageSize, Hash, e) ==
  IF This = NULL \/ Hash = NULL THEN Ret(s, EFI_INVALID_PARAMETER)
  ELSE IF HashAlgorithm = NULL THEN Ret(s, EFI_UNSUPPORTED)
  ELSE
    LET HashInfo == GetHashInfo(HashAlgorithm) IN
    IF HashInfo = NullHashInfo THEN Ret(s, EFI_UNSUPPORTED)
    ELSE IF s.HashContext[This] # NULL THEN Ret(s, EFI_ALREADY_STARTED)
    ELSE
      LET all == EvpMdHashAll(s, HashInfo.DigestName, Message, MessageSize, Hash, e)
      IN  Ret(all.s, IF all.ret THEN EFI_SUCCESS ELSE EFI_OUT_OF_RESOURCES)

\* This->HashInit, This->HashUpdate and This->HashFinal are the members of
\* mHash2Protocol: BaseCrypto2HashInit, BaseCrypto2HashUpdate, BaseCrypto2HashFinal
BaseCrypto2Hash(s, This, HashAlgorithm, Message, MessageSize, Hash, e) ==
  IF This = NULL \/ Hash = NULL THEN Ret(s, EFI_INVALID_PARAMETER)
  ELSE IF HashAlgorithm = NULL THEN Ret(s, EFI_UNSUPPORTED)
  ELSE
    LET init == BaseCrypto2HashInit(s, This, HashAlgorithm, e) IN
    IF EFI_ERROR(init.ret) THEN init
    ELSE
      LET upd == BaseCrypto2HashUpdate(init.s, This, Message, MessageSize, e) IN
      IF EFI_ERROR(upd.ret) THEN upd
      ELSE BaseCrypto2HashFinal(upd.s, This, Hash, e)

----------------------------------------------------------------------------
(* Arguments of the service calls *)

ByteSeqs(n) == UNION {[1..k -> Byte] : k \in 0..n}

\* (Message, MessageSize): an absent buffer with any size, or a pointer to a
\* buffer holding the MessageSize bytes msg
MessageArgs ==
  {[Message |-> NULL, MessageSize |-> n, msg |-> <<>>] : n \in 0..MaxMsgLen}
    \cup {[Message |-> "message", MessageSize |-> Len(m), msg |-> m] : m \in ByteSeqs(MaxMsgLen)}

ThisArgs == Instances \cup {NULL}

SupportedGuids == {mHashInfo[i].Guid : i \in 1..Len(mHashInfo)}

HashAlgorithmArgs == SupportedGuids \cup {UnregisteredGuid, NULL}

\* the identifiers passed to the calls that start a digest: a registered one, an
\* unregistered one and none (the claims range over all of SupportedGuids)
DigestAlgorithmArgs == {gEfiHashAlgorithmSha256Guid, UnregisteredGuid, NULL}

\* the engine's behaviour in one call: every step succeeds, or one step fails
\* (a call takes no engine step but EVP_MD_CTX_free after a failed one: EndsAtFailure)
EngineArgs == {AllSucceed} \cup {[AllSucceed EXCEPT ![k] = FALSE] : k \in DOMAIN AllSucceed}

\* the engine behaviours to tell apart for a call whose result is r0 when every
\* engine step succeeds: a call that takes no engine step then, takes none at all
EngineArgsFor(r0) == IF r0.s.calls = <<>> THEN {AllSucceed} ELSE EngineArgs

\* a caller's output pointer: absent, or pointing to a buffer
PointerArgs == {NULL, "buffer"}

\* engine step of each outcome in e
StepOf ==
  [new |-> "EVP_MD_CTX_new", lookup |-> "EVP_get_digestbyname", init |-> "EVP_DigestInit_ex",
   update |-> "EVP_DigestUpdate", final |-> "EVP_DigestFinal_ex"]

----------------------------------------------------------------------------
(* State machine *)

\* the machine at the start of a call whose message buffer holds msg
Cur(msg) ==
  [HashContext |-> HashContext, Updated |-> Updated, heap |-> heap, nextCtx |-> nextCtx,
   doubleFree |-> doubleFree, useAfterFree |-> useAfterFree,
   calls |-> <<>>, msg |-> msg, out |-> Unwritten, size |-> 0]

\* the last service call: the operation, the instance it was called on, the status it
\* returned, the engine steps it took, the outputs it wrote, and the state before it
NoCall ==
  [op |-> "None", This |-> NULL, Status |-> EFI_SUCCESS, calls |-> <<>>,
   out |-> Unwritten, size |-> 0,
   pre |-> [HashContext |-> [i \in Instances |-> NULL],
            Updated |-> [i \in Instances |-> FALSE], heap |-> <<>>]]

Init ==
  /\ HashContext = [i \in Instances |-> NULL]
  /\ Updated = [i \in Instances |-> FALSE]
  /\ heap = <<>>
  /\ nextCtx = 1
  /\ doubleFree = FALSE
  /\ useAfterFree = FALSE
  /\ last = NoCall

\* e says nothing about the engine steps the call did not take
Canonical(e, calls) ==
  \A k \in DOMAIN StepOf :
    (\A i \in 1..Len(calls) : calls[i].fn # StepOf[k]) => e[k]

\* the bounds of the model hold in the state s
WithinBounds(s) ==
  /\ s.nextCtx <= MaxCtx + 1
  /\ \A c \in DOMAIN s.heap : Len(s.heap[c].data) <= MaxDataLen

\* the call op on This, under engine behaviour e, that produced result becomes
\* the step of the machine
Return(result, op, This, e) ==
  \E r \in {result} :
    /\ WithinBounds(r.s)
    /\ Canonical(e, r.s.calls)
    /\ HashContext' = r.s.HashContext
    /\ Updated' = r.s.Updated
    /\ heap' = r.s.heap
    /\ nextCtx' = r.s.nextCtx
    /\ doubleFree' = r.s.doubleFree
    /\ useAfterFree' = r.s.useAfterFree
    /\ last' = [op |-> op, This |-> This, Status |-> r.ret, calls |-> r.s.calls,
                out |-> r.s.out, size |-> r.s.size,
                pre |-> [HashContext |-> HashContext, Updated |-> Updated, heap |-> heap]]

GetHashSize ==
  \E This \in ThisArgs, HashAlgorithm \in HashAlgorithmArgs, HashSize \in PointerArgs :
    \E e \in EngineArgsFor(BaseCrypto2GetHashSize(Cur(<<>>), This, HashAlgorithm, HashSize)) :
    Return(BaseCrypto2GetHashSize(Cur(<<>>), This, HashAlgorithm, HashSize),
           "GetHashSize", This, e)

Hash ==
  \E This \in ThisArgs, HashAlgorithm \in DigestAlgorithmArgs, m \in MessageArgs,
     HashOut \in PointerArgs :
    \E e \in EngineArgsFor(BaseCrypto2Hash(Cur(m.msg), This, HashAlgorithm, m.Message,
                                            m.MessageSize, HashOut, AllSucceed)) :
    Return(BaseCrypto2Hash(Cur(m.msg), This, HashAlgorithm, m.Message, m.MessageSize, HashOut, e),
           "Hash", This, e)

HashInit ==
  \E This \in ThisArgs, HashAlgorithm \in DigestAlgorithmArgs :
    \E e \in EngineArgsFor(BaseCrypto2HashInit(Cur(<<>>), This, HashAlgorithm, AllSucceed)) :
    Return(BaseCrypto2HashInit(Cur(<<>>), This, HashAlgorithm, e), "HashInit", This, e)

HashUpdate ==
  \E This \in ThisArgs, m \in MessageArgs :
    \E e \in EngineArgsFor(BaseCrypto2HashUpdate(Cur(m.msg), This, m.Message, m.MessageSize,
                                                  AllSucceed)) :
    Return(BaseCrypto2HashUpdate(Cur(m.msg), This, m.Message, m.MessageSize, e),
           "HashUpdate", This, e)

HashFinal ==
  \E This \in ThisArgs, HashOut \in PointerArgs :
    \E e \in EngineArgsFor(BaseCrypto2HashFinal(Cur(<<>>), This, HashOut, AllSucceed)) :
    Return(BaseCrypto2HashFinal(Cur(<<>>), This, HashOut, e), "HashFinal", This, e)

\* after a failed engine step a call only frees
EndsAtFailure ==
  \A i \in 1..Len(last.calls) :
    ~last.calls[i].ok => \A j \in (i + 1)..Len(last.calls) : last.calls[j].fn = "EVP_MD_CTX_free"

Next == GetHashSize \/ Hash \/ HashInit \/ HashUpdate \/ HashFinal

Spec == Init /\ [][Next]_vars

----------------------------------------------------------------------------
(* Vocabulary of the claims *)

\* the session states of instance i
Idle(i) == HashContext[i] = NULL
Active_NoData(i) == HashContext[i] # NULL /\ ~Updated[i]
Active_HasData(i) == HashContext[i] # NULL /\ Updated[i]

\* the call that led to state s left sessions and engine contexts as they are now
Undisturbed(s) ==
  /\ s.HashContext = HashContext
  /\ s.Updated = Updated
  /\ s.heap = heap

\* the engine steps of a call
Steps(calls) == {calls[i].fn : i \in 1..Len(calls)}

\* the contexts a call allocated
Allocated(calls) ==
  {calls[i].ctx : i \in {j \in 1..Len(calls) : calls[j].fn = "EVP_MD_CTX_new" /\ calls[j].ok}}

\* the last call was op on an instance
LastOn(op) == last.op = op /\ last.This \in Instances

----------------------------------------------------------------------------
(* C1: HashInit with a supported identifier on an instance whose session is *)
(* active returns EFI_ALREADY_STARTED, takes no engine step (allocates no   *)
(* context), leaves the stored context and the Updated flag as they were,   *)
(* and the session can still be fed and completed.                          *)

C1_BeginWhileActiveRejected ==
  \A This \in Instances, HashAlgorithm \in SupportedGuids, e \in EngineArgs :
    ~Idle(This) =>
      LET r == BaseCrypto2HashInit(Cur(<<>>), This, HashAlgorithm, e)
          u == BaseCrypto2HashUpdate(r.s, This, NULL, 0, AllSucceed)
          f == BaseCrypto2HashFinal(u.s, This, "buffer", AllSucceed)
      IN  /\ r.ret = EFI_ALREADY_STARTED
          /\ r.s.calls = <<>>
          /\ Undisturbed(r.s)
          /\ u.ret = EFI_SUCCESS
          /\ f.ret = EFI_SUCCESS
          /\ ~f.s.useAfterFree /\ ~f.s.doubleFree

\* HashInit was just rejected on an active session
C1_Witness ==
  /\ LastOn("HashInit")
  /\ last.Status = EFI_ALREADY_STARTED
  /\ last.pre.HashContext[last.This] # NULL
  /\ Active_HasData(last.This)

----------------------------------------------------------------------------
(* C2: HashInit with a supported identifier on an Idle instance has two      *)
(* outcomes.  If EvpMdInit returns a context the call returns EFI_SUCCESS    *)
(* and the session is Active_NoData holding that context; if EvpMdInit       *)
(* returns NULL the call returns EFI_OUT_OF_RESOURCES and the session stays  *)
(* Idle with no stored context.  No other session changes.                   *)

C2_BeginFromIdle ==
  \A This \in Instances, HashAlgorithm \in SupportedGuids, e \in EngineArgs :
    Idle(This) =>
      LET r == BaseCrypto2HashInit(Cur(<<>>), This, HashAlgorithm, e)
          HashCtx == EvpMdInit(Cur(<<>>), GetHashInfo(HashAlgorithm).DigestName, e).ret
      IN  /\ \A i \in Instances \ {This} :
               r.s.HashContext[i] = HashContext[i] /\ r.s.Updated[i] = Updated[i]
          /\ IF HashCtx # NULL
               THEN /\ r.ret = EFI_SUCCESS
                    /\ r.s.HashContext[This] = HashCtx
                    /\ r.s.Updated[This] = FALSE
                    /\ HashCtx \in DOMAIN r.s.heap
               ELSE /\ r.ret = EFI_OUT_OF_RESOURCES
                    /\ r.s.HashContext[This] = NULL
                    /\ r.s.Updated[This] = FALSE

\* HashInit on an Idle instance just failed in the engine, after one that succeeded
C2_Witness ==
  /\ LastOn("HashInit")
  /\ last.Status = EFI_OUT_OF_RESOURCES
  /\ last.pre.HashContext[last.This] = NULL
  /\ Idle(last.This)
  /\ \E i \in Instances : Active_NoData(i)

----------------------------------------------------------------------------
(* C3: on an Idle session HashUpdate and HashFinal (non-null This and Hash)  *)
(* return EFI_NOT_READY, take no engine step and leave the session Idle; a   *)
(* second HashFinal right after an accepted HashFinal returns EFI_NOT_READY  *)
(* and releases nothing.                                                     *)

C3_IdleNotReady ==
  \A This \in Instances, e \in EngineArgs :
    /\ Idle(This) =>
         /\ \A m \in MessageArgs :
              LET u == BaseCrypto2HashUpdate(Cur(m.msg), This, m.Message, m.MessageSize, e)
              IN  u.ret = EFI_NOT_READY /\ u.s.calls = <<>> /\ Undisturbed(u.s)
         /\ LET f == BaseCrypto2HashFinal(Cur(<<>>), This, "buffer", e)
            IN  f.ret = EFI_NOT_READY /\ f.s.calls = <<>> /\ Undisturbed(f.s)
    /\ Active_HasData(This) =>
         LET first  == BaseCrypto2HashFinal(Cur(<<>>), This, "buffer", e)
             second == BaseCrypto2HashFinal([first.s EXCEPT !.calls = <<>>], This, "buffer", e)
         IN  /\ second.ret = EFI_NOT_READY
             /\ second.s.calls = <<>>
             /\ second.s.HashContext[This] = NULL
             /\ second.s.heap = first.s.heap
             /\ ~second.s.doubleFree

\* a HashFinal was just rejected on a session that had completed before
C3_Witness ==
  /\ LastOn("HashFinal")
  /\ last.Status = EFI_NOT_READY
  /\ last.pre.HashContext[last.This] = NULL
  /\ Idle(last.This)
  /\ nextCtx > 1
  /\ heap = <<>>

----------------------------------------------------------------------------
(* C4: HashFinal with a non-null Hash on an Active_HasData session leaves    *)
(* the session Idle (context cleared, Updated FALSE) and the context         *)
(* released, whether the engine's finalize step succeeds (EFI_SUCCESS) or    *)
(* fails (EFI_OUT_OF_RESOURCES).                                             *)

C4_CompleteAlwaysIdle ==
  \A This \in Instances, e \in EngineArgs :
    Active_HasData(This) =>
      LET f == BaseCrypto2HashFinal(Cur(<<>>), This, "buffer", e)
      IN  /\ f.s.HashContext[This] = NULL
          /\ f.s.Updated[This] = FALSE
          /\ HashContext[This] \notin DOMAIN f.s.heap
          /\ f.ret = IF e.final THEN EFI_SUCCESS ELSE EFI_OUT_OF_RESOURCES
          /\ (f.ret = EFI_SUCCESS) = (f.s.out # Unwritten)

\* HashFinal just failed in the engine on a session that had data
C4_Witness ==
  /\ LastOn("HashFinal")
  /\ last.Status = EFI_OUT_OF_RESOURCES
  /\ last.pre.HashContext[last.This] # NULL
  /\ last.pre.Updated[last.This]
  /\ Idle(last.This)

----------------------------------------------------------------------------
(* C5: HashFinal with a non-null Hash on an Active_NoData session returns    *)
(* EFI_NOT_READY, takes no engine step (no finalize, no release) and leaves  *)
(* the session Active_NoData with the same context.                          *)

C5_CompleteWithoutData ==
  \A This \in Instances, e \in EngineArgs :
    Active_NoData(This) =>
      LET f == BaseCrypto2HashFinal(Cur(<<>>), This, "buffer", e)
      IN  /\ f.ret = EFI_NOT_READY
          /\ f.s.calls = <<>>
          /\ Undisturbed(f.s)
          /\ HashContext[This] \in DOMAIN f.s.heap

\* HashFinal was just rejected on a session that holds a context and no data
C5_Witness ==
  /\ LastOn("HashFinal")
  /\ last.Status = EFI_NOT_READY
  /\ last.pre.HashContext[last.This] # NULL
  /\ Active_NoData(last.This)

----------------------------------------------------------------------------
(* C6: over every sequence of the five service calls no engine context is    *)
(* released twice and none is passed to an engine step after its release.    *)

C6_NoDoubleReleaseNoUseAfterRelease ==
  /\ ~doubleFree
  /\ ~useAfterFree
  /\ \A i \in 1..Len(last.calls) :
       last.calls[i].fn = "EVP_MD_CTX_free" =>
         \A j \in (i + 1)..Len(last.calls) : last.calls[j].ctx # last.calls[i].ctx

\* every context of the allocator has been handed out, the last call released
\* one and an earlier call released another
C6_Witness ==
  /\ "EVP_MD_CTX_free" \in Steps(last.calls)
  /\ nextCtx = MaxCtx + 1
  /\ heap = <<>>

----------------------------------------------------------------------------
(* C7: between service calls the allocated, not yet released engine contexts *)
(* are exactly the contexts stored in the active sessions: one per active    *)
(* instance, none for an Idle instance, none owned by nobody.                *)

C7_LiveContextsAreStoredContexts ==
  /\ DOMAIN heap = {HashContext[i] : i \in Instances} \ {NULL}
  /\ \A i, j \in Instances :
       i # j /\ ~Idle(i) /\ ~Idle(j) => HashContext[i] # HashContext[j]

----------------------------------------------------------------------------
(* C8: EvpMdInit never leaks: when it returns NULL, every context it         *)
(* allocated during the call has been freed.  Observed on the service calls  *)
(* that call it: one of the steps of EvpMdInit failed in the last call.      *)

EvpMdInitFailed(calls) ==
  \E i \in 1..Len(calls) :
    /\ calls[i].fn \in {"EVP_MD_CTX_new", "EVP_get_digestbyname", "EVP_DigestInit_ex"}
    /\ ~calls[i].ok

C8_EvpMdInitNeverLeaks ==
  (last.op \in {"HashInit", "Hash"} /\ EvpMdInitFailed(last.calls)) =>
    Allocated(last.calls) \cap DOMAIN heap = {}

----------------------------------------------------------------------------
(* C9: Hash called on an Idle instance returns, with any status, with the    *)
(* instance Idle again and no context created by the call still allocated.   *)

C9_HashCleansUp ==
  (LastOn("Hash") /\ last.pre.HashContext[last.This] = NULL) =>
    /\ Idle(last.This)
    /\ Allocated(last.calls) \cap DOMAIN heap = {}

----------------------------------------------------------------------------
(* C10: Hash is independent of the instance's streaming session: with the    *)
(* same identifier, message and engine behaviour, its status and digest on   *)
(* an instance with an active session are those on the instance Idle, and    *)
(* the stored context and the Updated flag are left as they were.            *)

C10_HashIndependentOfSession ==
  \A This \in Instances, HashAlgorithm \in DigestAlgorithmArgs, m \in MessageArgs,
     e \in EngineArgs :
    ~Idle(This) =>
      LET idle   == [Cur(m.msg) EXCEPT !.HashContext[This] = NULL, !.Updated[This] = FALSE]
          onIdle == BaseCrypto2Hash(idle, This, HashAlgorithm, m.Message, m.MessageSize,
                                    "buffer", e)
          r      == BaseCrypto2Hash(Cur(m.msg), This, HashAlgorithm, m.Message, m.MessageSize,
                                    "buffer", e)
      IN  /\ r.ret = onIdle.ret
          /\ r.s.out = onIdle.s.out
          /\ r.s.HashContext[This] = HashContext[This]
          /\ r.s.Updated[This] = Updated[This]

----------------------------------------------------------------------------
(* C11: for every supported identifier, every message (the empty message    *)
(* with absent data included) and every engine behaviour, Hash on an Idle   *)
(* instance returns the status and the digest of the calls HashInit,        *)
(* HashUpdate, HashFinal made in sequence on the Idle instance, and leaves  *)
(* the instance and the engine in the same final state.                     *)

\* a caller making the three streaming calls one after the other; the status of
\* the sequence is the first error, or that of HashFinal
StreamingSequence(s, This, HashAlgorithm, Message, MessageSize, HashOut, e) ==
  LET init == BaseCrypto2HashInit(s, This, HashAlgorithm, e)
      upd  == BaseCrypto2HashUpdate(init.s, This, Message, MessageSize, e)
      fin  == BaseCrypto2HashFinal(upd.s, This, HashOut, e)
  IN  Ret(fin.s, IF EFI_ERROR(init.ret) THEN init.ret
                 ELSE IF EFI_ERROR(upd.ret) THEN upd.ret
                 ELSE fin.ret)

C11_HashEqualsStreamingSequence ==
  \A This \in Instances, HashAlgorithm \in SupportedGuids, m \in MessageArgs,
     e \in EngineArgs :
    Idle(This) =>
      LET r   == BaseCrypto2Hash(Cur(m.msg), This, HashAlgorithm, m.Message, m.MessageSize,
                                 "buffer", e)
          seq == StreamingSequence(Cur(m.msg), This, HashAlgorithm, m.Message, m.MessageSize,
                                   "buffer", e)
      IN  /\ r.ret = seq.ret
          /\ r.s.out = seq.s.out
          /\ r.s.HashContext = seq.s.HashContext
          /\ r.s.Updated = seq.s.Updated
          /\ r.s.heap = seq.s.heap

\* Hash on an Idle instance, with an absent message of size 0, returned the digest
\* of the empty message while the other instance had a session with data
C11_Witness ==
  /\ LastOn("Hash")
  /\ last.pre.HashContext[last.This] = NULL
  /\ last.Status = EFI_SUCCESS
  /\ last.out = [name |-> "SHA256", data |-> <<>>]
  /\ \E i \in Instances : Active_HasData(i)

----------------------------------------------------------------------------
(* C12: with a non-null instance and non-null output pointers, and an       *)
(* absent or unregistered algorithm identifier, HashInit, Hash and          *)
(* GetHashSize return EFI_UNSUPPORTED in every session state, take no       *)
(* engine step (allocate no context) and leave the sessions as they were.   *)

\* the call returned EFI_UNSUPPORTED without an engine step or a change of state
RejectedUnsupported(r) ==
  /\ r.ret = EFI_UNSUPPORTED
  /\ r.s.calls = <<>>
  /\ r.s.nextCtx = nextCtx
  /\ r.s.out = Unwritten
  /\ r.s.size = 0
  /\ Undisturbed(r.s)

C12_UnsupportedIdentifierRejected ==
  \A This \in Instances, HashAlgorithm \in {NULL, UnregisteredGuid} :
    /\ \A e \in EngineArgsFor(BaseCrypto2HashInit(Cur(<<>>), This, HashAlgorithm, AllSucceed)) :
         RejectedUnsupported(BaseCrypto2HashInit(Cur(<<>>), This, HashAlgorithm, e))
    /\ \A m \in MessageArgs :
         \A e \in EngineArgsFor(BaseCrypto2Hash(Cur(m.msg), This, HashAlgorithm, m.Message,
                                                m.MessageSize, "buffer", AllSucceed)) :
           RejectedUnsupported(BaseCrypto2Hash(Cur(m.msg), This, HashAlgorithm, m.Message,
                                               m.MessageSize, "buffer", e))
    /\ RejectedUnsupported(BaseCrypto2GetHashSize(Cur(<<>>), This, HashAlgorithm, "buffer"))

\* HashInit returned EFI_UNSUPPORTED on an instance whose session has data, while
\* the other instance is Idle
C12_Witness ==
  /\ LastOn("HashInit")
  /\ last.Status = EFI_UNSUPPORTED
  /\ last.pre.HashContext[last.This] # NULL
  /\ Active_HasData(last.This)
  /\ \E i \in Instances : Idle(i)

----------------------------------------------------------------------------
(* The EVP MD wrapper called directly by a client of the library.  The      *)
(* client holds the contexts EvpMdInit returned to it and has not yet       *)
(* passed to EvpMdFinal; the protocol instances stay as created.            *)

\* the contexts EvpMdInit returned: those EVP_DigestInit_ex has set up
Held == {c \in DOMAIN heap : heap[c].name # NULL}

DigestNameArgs == {NULL, "SHA1", "SHA256"}

EvpMdContextArgs == Held \cup {NULL}

CallEvpMdInit ==
  \E DigestName \in DigestNameArgs :
    \E e \in EngineArgsFor(EvpMdInit(Cur(<<>>), DigestName, AllSucceed)) :
    Return(EvpMdInit(Cur(<<>>), DigestName, e), "EvpMdInit", NULL, e)

CallEvpMdUpdate ==
  \E EvpMdContext \in EvpMdContextArgs, m \in MessageArgs :
    \E e \in EngineArgsFor(EvpMdUpdate(Cur(m.msg), EvpMdContext, m.Message, m.MessageSize,
                                       AllSucceed)) :
    Return(EvpMdUpdate(Cur(m.msg), EvpMdContext, m.Message, m.MessageSize, e),
           "EvpMdUpdate", NULL, e)

CallEvpMdFinal ==
  \E EvpMdContext \in EvpMdContextArgs, DigestValue \in PointerArgs :
    \E e \in EngineArgsFor(EvpMdFinal(Cur(<<>>), EvpMdContext, DigestValue, AllSucceed)) :
    Return(EvpMdFinal(Cur(<<>>), EvpMdContext, DigestValue, e), "EvpMdFinal", NULL, e)

CallEvpMdHashAll ==
  \E DigestName \in DigestNameArgs, m \in MessageArgs, HashValue \in PointerArgs :
    \E e \in EngineArgsFor(EvpMdHashAll(Cur(m.msg), DigestName, m.Message, m.MessageSize,
                                        HashValue, AllSucceed)) :
    Return(EvpMdHashAll(Cur(m.msg), DigestName, m.Message, m.MessageSize, HashValue, e),
           "EvpMdHashAll", NULL, e)

NextEvp == CallEvpMdInit \/ CallEvpMdUpdate \/ CallEvpMdFinal \/ CallEvpMdHashAll

SpecEvp == Init /\ [][NextEvp]_vars

\* the calls of EVP_MD_CTX_free on ctx among the engine steps calls
Frees(calls, ctx) ==
  {i \in 1..Len(calls) : calls[i].fn = "EVP_MD_CTX_free" /\ calls[i].ctx = ctx}

----------------------------------------------------------------------------
(* C13: EvpMdFinal called with a context the client holds releases that     *)
(* context exactly once on every path.  With an absent output buffer it     *)
(* frees the context without finalizing and returns FALSE; otherwise it     *)
(* finalizes into the buffer, frees the context, and returns TRUE exactly   *)
(* when EVP_DigestFinal_ex succeeded.                                       *)

C13_EvpMdFinalReleasesOnce ==
  \A EvpMdContext \in Held, DigestValue \in PointerArgs, e \in EngineArgs :
    LET r == EvpMdFinal(Cur(<<>>), EvpMdContext, DigestValue, e)
        n == Len(r.s.calls)
    IN  /\ Cardinality(Frees(r.s.calls, EvpMdContext)) = 1
        /\ r.s.calls[n].fn = "EVP_MD_CTX_free"
        /\ DOMAIN r.s.heap = DOMAIN heap \ {EvpMdContext}
        /\ \A c \in DOMAIN r.s.heap : r.s.heap[c] = heap[c]
        /\ ~r.s.doubleFree /\ ~r.s.useAfterFree
        /\ DigestValue = NULL =>
             /\ r.ret = FALSE
             /\ n = 1
             /\ r.s.out = Unwritten
        /\ DigestValue # NULL =>
             /\ n = 2
             /\ r.s.calls[1] = [fn |-> "EVP_DigestFinal_ex", ctx |-> EvpMdContext, ok |-> e.final]
             /\ r.ret = e.final
             /\ e.final => r.s.out = DigestOf(heap[EvpMdContext])

\* EvpMdFinal, given an absent output buffer, returned FALSE after its only engine
\* step, the release of a context that had absorbed data
C13_Witness ==
  /\ last.op = "EvpMdFinal"
  /\ last.Status = FALSE
  /\ Len(last.calls) = 1
  /\ last.calls[1].fn = "EVP_MD_CTX_free"
  /\ last.calls[1].ctx \in DOMAIN last.pre.heap
  /\ last.pre.heap[last.calls[1].ctx].data # <<>>
  /\ last.calls[1].ctx \notin DOMAIN heap

----------------------------------------------------------------------------
(* C14: EvpMdHashAll follows the sequence init, update, final with cleanup. *)
(* If EvpMdInit fails it returns FALSE without an update or a final step;   *)
(* if EvpMdUpdate fails it calls EvpMdFinal with an absent output buffer    *)
(* and returns FALSE; otherwise it returns the result of EvpMdFinal on the  *)
(* caller's buffer.  Whenever EvpMdInit succeeded the context is released   *)
(* exactly once before the call returns.                                    *)

C14_EvpMdHashAllSequence ==
  \A DigestName \in DigestNameArgs, m \in MessageArgs, HashValue \in PointerArgs,
     e \in EngineArgs :
    LET r    == EvpMdHashAll(Cur(m.msg), DigestName, m.Message, m.MessageSize, HashValue, e)
        init == EvpMdInit(Cur(m.msg), DigestName, e)
        upd  == EvpMdUpdate(init.s, init.ret, m.Message, m.MessageSize, e)
    IN  /\ init.ret = NULL =>
             /\ r.ret = FALSE
             /\ r.s = init.s
             /\ Steps(r.s.calls) \cap {"EVP_DigestUpdate", "EVP_DigestFinal_ex"} = {}
        /\ (init.ret # NULL /\ ~upd.ret) =>
             /\ r.ret = FALSE
             /\ r.s = EvpMdFinal(upd.s, init.ret, NULL, e).s
             /\ "EVP_DigestFinal_ex" \notin Steps(r.s.calls)
             /\ r.s.out = Unwritten
        /\ (init.ret # NULL /\ upd.ret) =>
             r = EvpMdFinal(upd.s, init.ret, HashValue, e)
        /\ init.ret # NULL =>
             /\ Cardinality(Frees(r.s.calls, init.ret)) = 1
             /\ r.s.calls[Len(r.s.calls)].fn = "EVP_MD_CTX_free"
             /\ r.s.heap = heap
             /\ ~r.s.doubleFree /\ ~r.s.useAfterFree

\* EvpMdHashAll returned FALSE after EVP_DigestUpdate failed: it finalized nothing
\* and released the context it had created, while the client holds another context
C14_Witness ==
  /\ last.op = "EvpMdHashAll"
  /\ last.Status = FALSE
  /\ \E i \in 1..Len(last.calls) : last.calls[i].fn = "EVP_DigestUpdate" /\ ~last.calls[i].ok
  /\ "EVP_DigestFinal_ex" \notin Steps(last.calls)
  /\ Allocated(last.calls) # {}
  /\ Allocated(last.calls) \cap DOMAIN heap = {}
  /\ Held # {}

----------------------------------------------------------------------------
(* C15: HashUpdate on an active session whose EvpMdUpdate fails (the engine *)
(* update fails, or the data is absent with a nonzero size) returns         *)
(* EFI_OUT_OF_RESOURCES and leaves the session as it was: the same context  *)
(* stays stored and allocated and the Updated flag keeps its value.         *)

C15_FailedUpdateKeepsSession ==
  \A This \in Instances, m \in MessageArgs, e \in EngineArgs :
    (~Idle(This) /\ (~e.update \/ (m.Message = NULL /\ m.MessageSize # 0))) =>
      LET r == BaseCrypto2HashUpdate(Cur(m.msg), This, m.Message, m.MessageSize, e)
      IN  /\ r.ret = EFI_OUT_OF_RESOURCES
          /\ r.s.HashContext = HashContext
          /\ r.s.Updated = Updated
          /\ HashContext[This] \in DOMAIN r.s.heap
          /\ "EVP_MD_CTX_free" \notin Steps(r.s.calls)

\* HashUpdate returned EFI_OUT_OF_RESOURCES after EVP_DigestUpdate failed on a
\* session that had data, and the session still has its context and its data flag
C15_Witness ==
  /\ LastOn("HashUpdate")
  /\ last.Status = EFI_OUT_OF_RESOURCES
  /\ last.calls # <<>>
  /\ last.pre.Updated[last.This]
  /\ Active_HasData(last.This)
  /\ HashContext[last.This] = last.pre.HashContext[last.This]

----------------------------------------------------------------------------
(* C16: after a service call (Hash, HashInit, HashUpdate or HashFinal) on   *)
(* an instance has returned EFI_OUT_OF_RESOURCES, the caller can start      *)
(* again from HashInit on that instance: the next HashInit with a supported *)
(* identifier is not rejected with EFI_ALREADY_STARTED.                     *)

C16_RetryFromInitAfterOutOfResources ==
  (/\ last.op \in {"Hash", "HashInit", "HashUpdate", "HashFinal"}
   /\ last.This \in Instances
   /\ last.Status = EFI_OUT_OF_RESOURCES) =>
    \A HashAlgorithm \in SupportedGuids, e \in EngineArgs :
      BaseCrypto2HashInit(Cur(<<>>), last.This, HashAlgorithm, e).ret # EFI_ALREADY_STARTED

----------------------------------------------------------------------------
(* C17: the five service calls check their required non-null arguments      *)
(* first.  A NULL instance, or a NULL output pointer of GetHashSize, Hash   *)
(* or HashFinal, gives EFI_INVALID_PARAMETER, and whenever a call returns   *)
(* EFI_INVALID_PARAMETER no engine step was taken and sessions and contexts *)
(* are as before, in every session state; HashFinal with a NULL buffer on a *)
(* session with data keeps the session and its context.                     *)

\* the call returns EFI_INVALID_PARAMETER exactly when a required argument is
\* missing, and then without an engine step or a change of state
ChecksArguments(r, missing) ==
  /\ missing => r.ret = EFI_INVALID_PARAMETER
  /\ r.ret = EFI_INVALID_PARAMETER =>
       /\ missing
       /\ r.s.calls = <<>>
       /\ r.s.nextCtx = nextCtx
       /\ r.s.out = Unwritten
       /\ r.s.size = 0
       /\ Undisturbed(r.s)

C17_ArgumentsCheckedFirst ==
  /\ \A This \in ThisArgs, HashAlgorithm \in HashAlgorithmArgs, HashSize \in PointerArgs :
       ChecksArguments(BaseCrypto2GetHashSize(Cur(<<>>), This, HashAlgorithm, HashSize),
                       This = NULL \/ HashSize = NULL)
  /\ \A This \in ThisArgs, HashAlgorithm \in DigestAlgorithmArgs, m \in MessageArgs,
        HashOut \in PointerArgs :
       \A e \in EngineArgsFor(BaseCrypto2Hash(Cur(m.msg), This, HashAlgorithm, m.Message,
                                              m.MessageSize, HashOut, AllSucceed)) :
         ChecksArguments(BaseCrypto2Hash(Cur(m.msg), This, HashAlgorithm, m.Message,
                                         m.MessageSize, HashOut, e),
                         This = NULL \/ HashOut = NULL)
  /\ \A This \in ThisArgs, HashAlgorithm \in HashAlgorithmArgs :
       \A e \in EngineArgsFor(BaseCrypto2HashInit(Cur(<<>>), This, HashAlgorithm, AllSucceed)) :
         ChecksArguments(BaseCrypto2HashInit(Cur(<<>>), This, HashAlgorithm, e), This = NULL)
  /\ \A This \in ThisArgs, m \in MessageArgs :
       \A e \in EngineArgsFor(BaseCrypto2HashUpdate(Cur(m.msg), This, m.Message,
                                                    m.MessageSize, AllSucceed)) :
         ChecksArguments(BaseCrypto2HashUpdate(Cur(m.msg), This, m.Message, m.MessageSize, e),
                         This = NULL)
  /\ \A This \in ThisArgs, HashOut \in PointerArgs :
       \A e \in EngineArgsFor(BaseCrypto2HashFinal(Cur(<<>>), This, HashOut, AllSucceed)) :
         ChecksArguments(BaseCrypto2HashFinal(Cur(<<>>), This, HashOut, e),
                         This = NULL \/ HashOut = NULL)

\* HashFinal on an instance returned EFI_INVALID_PARAMETER (its buffer was NULL)
\* and the session still has its data and its allocated context
C17_Witness ==
  /\ LastOn("HashFinal")
  /\ last.Status = EFI_INVALID_PARAMETER
  /\ last.pre.Updated[last.This]
  /\ Active_HasData(last.This)
  /\ HashContext[last.This] \in DOMAIN heap
  /\ heap = last.pre.heap

----------------------------------------------------------------------------
(* C18: in every session state GetHashSize with a non-null instance and a   *)
(* non-null output pointer returns EFI_SUCCESS and the digest length of the *)
(* identifier (MD5 16, SHA-1 20, SHA-256 32, SHA-384 48, SHA-512 64), and   *)
(* EFI_UNSUPPORTED for an absent or unregistered identifier; it changes no  *)
(* session and a repeated call returns the same result.                     *)

\* the standard digest lengths, in bytes
StandardDigestLength ==
  (gEfiHashAlgorithmMD5Guid :> 16) @@ (gEfiHashAlgorithmSha1Guid :> 20) @@
  (gEfiHashAlgorithmSha256Guid :> 32) @@ (gEfiHashAlgorithmSha384Guid :> 48) @@
  (gEfiHashAlgorithmSha512Guid :> 64)

C18_GetHashSizeRegisteredSizes ==
  \A This \in Instances, HashAlgorithm \in HashAlgorithmArgs :
    LET r     == BaseCrypto2GetHashSize(Cur(<<>>), This, HashAlgorithm, "buffer")
        again == BaseCrypto2GetHashSize([r.s EXCEPT !.size = 0], This, HashAlgorithm, "buffer")
    IN  /\ HashAlgorithm \in DOMAIN StandardDigestLength =>
             /\ r.ret = EFI_SUCCESS
             /\ r.s.size = StandardDigestLength[HashAlgorithm]
        /\ HashAlgorithm \notin DOMAIN StandardDigestLength =>
             /\ r.ret = EFI_UNSUPPORTED
             /\ r.s.size = 0
        /\ r.s.calls = <<>>
        /\ r.s.nextCtx = nextCtx
        /\ Undisturbed(r.s)
        /\ again = r

\* GetHashSize returned the 64 bytes of SHA-512 while one session has data and the
\* other has none yet, and left both as they were
C18_Witness ==
  /\ LastOn("GetHashSize")
  /\ last.Status = EFI_SUCCESS
  /\ last.size = 64
  /\ \E i \in Instances : Active_HasData(i)
  /\ \E i \in Instances : Active_NoData(i)
  /\ HashContext = last.pre.HashContext
  /\ Updated = last.pre.Updated

----------------------------------------------------------------------------
(* C19: instances are independent under every interleaving of their calls.  *)
(* A call on one instance (Hash included) leaves the stored context, the    *)
(* Updated flag and the engine context of every other instance as they      *)
(* were, and its status, its outputs, its engine steps and the session it   *)
(* leaves on its own instance are those it has when every other instance is *)
(* Idle; so Hash on one instance succeeds while another has a session.      *)

\* the state s with every instance but This Idle
OthersIdle(s, This) ==
  [s EXCEPT !.HashContext = [i \in Instances |-> IF i = This THEN @[i] ELSE NULL],
            !.Updated = [i \in Instances |-> IF i = This THEN @[i] ELSE FALSE]]

\* the call that gave r on This left the other instances and their contexts alone
OthersUntouched(r, This) ==
  \A i \in Instances \ {This} :
    /\ r.s.HashContext[i] = HashContext[i]
    /\ r.s.Updated[i] = Updated[i]
    /\ HashContext[i] # NULL =>
         /\ HashContext[i] \in DOMAIN r.s.heap
         /\ r.s.heap[HashContext[i]] = heap[HashContext[i]]

\* r, the result of a call on This, is what the call gives with the others Idle
SameAsAlone(r, alone, This) ==
  /\ r.ret = alone.ret
  /\ r.s.out = alone.s.out
  /\ r.s.size = alone.s.size
  /\ r.s.calls = alone.s.calls
  /\ r.s.HashContext[This] = alone.s.HashContext[This]
  /\ r.s.Updated[This] = alone.s.Updated[This]

Independent(r, alone, This) ==
  /\ OthersUntouched(r, This)
  /\ (\E i \in Instances \ {This} : ~Idle(i)) => SameAsAlone(r, alone, This)

C19_InstancesIndependent ==
  /\ \A This \in Instances, HashAlgorithm \in DigestAlgorithmArgs, m \in MessageArgs :
       \A e \in EngineArgsFor(BaseCrypto2Hash(Cur(m.msg), This, HashAlgorithm, m.Message,
                                              m.MessageSize, "buffer", AllSucceed)) :
         Independent(BaseCrypto2Hash(Cur(m.msg), This, HashAlgorithm, m.Message,
                                     m.MessageSize, "buffer", e),
                     BaseCrypto2Hash(OthersIdle(Cur(m.msg), This), This, HashAlgorithm,
                                     m.Message, m.MessageSize, "buffer", e),
                     This)
  /\ \A This \in Instances, HashAlgorithm \in DigestAlgorithmArgs :
       \A e \in EngineArgsFor(BaseCrypto2HashInit(Cur(<<>>), This, HashAlgorithm, AllSucceed)) :
         Independent(BaseCrypto2HashInit(Cur(<<>>), This, HashAlgorithm, e),
                     BaseCrypto2HashInit(OthersIdle(Cur(<<>>), This), This, HashAlgorithm, e),
                     This)
  /\ \A This \in Instances, m \in MessageArgs :
       \A e \in EngineArgsFor(BaseCrypto2HashUpdate(Cur(m.msg), This, m.Message,
                                                    m.MessageSize, AllSucceed)) :
         Independent(BaseCrypto2HashUpdate(Cur(m.msg), This, m.Message, m.MessageSize, e),
                     BaseCrypto2HashUpdate(OthersIdle(Cur(m.msg), This), This, m.Message,
                                           m.MessageSize, e),
                     This)
  /\ \A This \in Instances :
       \A e \in EngineArgsFor(BaseCrypto2HashFinal(Cur(<<>>), This, "buffer", AllSucceed)) :
         Independent(BaseCrypto2HashFinal(Cur(<<>>), This, "buffer", e),
                     BaseCrypto2HashFinal(OthersIdle(Cur(<<>>), This), This, "buffer", e),
                     This)
  /\ \A This \in Instances, HashAlgorithm \in HashAlgorithmArgs :
       Independent(BaseCrypto2GetHashSize(Cur(<<>>), This, HashAlgorithm, "buffer"),
                   BaseCrypto2GetHashSize(OthersIdle(Cur(<<>>), This), This, HashAlgorithm,
                                          "buffer"),
                   This)

\* Hash on one instance returned EFI_SUCCESS while another instance had a session
\* with data, which still has its context and the data it had absorbed
C19_Witness ==
  /\ LastOn("Hash")
  /\ last.Status = EFI_SUCCESS
  /\ \E i \in Instances \ {last.This} :
       /\ last.pre.HashContext[i] # NULL
       /\ last.pre.Updated[i]
       /\ HashContext[i] = last.pre.HashContext[i]
       /\ Updated[i]
       /\ heap[HashContext[i]] = last.pre.heap[HashContext[i]]
       /\ heap[HashContext[i]].data # <<>>

----------------------------------------------------------------------------
(* A caller bringing the session of instance i to an end: it calls          *)
(* HashUpdate with absent data of size 0 until the session has data, then   *)
(* HashFinal with a buffer.  All other calls stay possible meanwhile.       *)

\* HashUpdate (This = i, Message = NULL, MessageSize = 0) on a session without data,
\* with the engine update succeeding
RecoverUpdate(i) ==
  /\ HashContext[i] # NULL
  /\ ~Updated[i]
  /\ Return(BaseCrypto2HashUpdate(Cur(<<>>), i, NULL, 0, AllSucceed), "HashUpdate", i, AllSucceed)

\* HashFinal (This = i, Hash = buffer) on a session that has data
RecoverFinal(i) ==
  /\ HashContext[i] # NULL
  /\ Updated[i]
  /\ \E e \in {AllSucceed, [AllSucceed EXCEPT !.final = FALSE]} :
       Return(BaseCrypto2HashFinal(Cur(<<>>), i, "buffer", e), "HashFinal", i, e)

SpecRecover ==
  /\ Init
  /\ [][Next]_vars
  /\ \A i \in Instances : WF_vars(RecoverUpdate(i)) /\ WF_vars(RecoverFinal(i))

----------------------------------------------------------------------------
(* C20: every active session can be brought back to Idle.  From every       *)
(* reachable state in which an instance holds a context (also after a       *)
(* failed HashUpdate or a failed Hash), a caller that repeats HashUpdate    *)
(* with absent data of size 0 until the engine update succeeds and then     *)
(* calls HashFinal with a buffer gets the instance Idle, where HashInit     *)
(* with a supported identifier is not rejected with EFI_ALREADY_STARTED.    *)

\* HashInit with a supported identifier is not rejected on instance i
InitAccepted(i) ==
  \A HashAlgorithm \in SupportedGuids, e \in EngineArgs :
    BaseCrypto2HashInit(Cur(<<>>), i, HashAlgorithm, e).ret # EFI_ALREADY_STARTED

C20_ActiveSessionReturnsToIdle ==
  /\ \A i \in Instances : (~Idle(i)) ~> Idle(i)
  /\ [](\A i \in Instances : Idle(i) => InitAccepted(i))

\* HashFinal has ended a session that had data and the instance is Idle with its
\* context released, while the other instance still waits for its first data
C20_Witness ==
  /\ LastOn("HashFinal")
  /\ last.Status = EFI_SUCCESS
  /\ last.pre.HashContext[last.This] # NULL
  /\ last.pre.HashContext[last.This] \notin DOMAIN heap
  /\ Idle(last.This)
  /\ InitAccepted(last.This)
  /\ \E i \in Instances : Active_NoData(i)

====
